---- MODULE Spec2Model ----
(***************************************************************************)
(* The product service of cmd/rest/rest_standard.go: an in-memory slice of *)
(* products behind one sync.Mutex, served by one goroutine per request.    *)
(*                                                                         *)
(* Each request slot r carries the request (method, URL, content-type,     *)
(* body), the handler's locals (id, product), the response written so far  *)
(* and the handler's position pc[r].  Text is modelled structurally: a URL *)
(* is a sequence of one-character strings, a body is the JSON value its    *)
(* bytes denote (or JInvalid when the bytes are not JSON), and a response  *)
(* body is the JSON value json.Marshal produces.  Go indexes from 0, TLA+  *)
(* sequences from 1: ph.products[id] is products[id + 1].                  *)
(***************************************************************************)
EXTENDS Integers, Sequences, FiniteSets, TLC

VARIABLES products, lock, pc, req, id, product, resp

vars == <<products, lock, pc, req, id, product, resp>>

(* ---------------------------- bounds ----------------------------------- *)

\* POST requests are admitted while the collection can stay within this length.
MaxProducts == 4

\* The goroutines (one per in-flight request) that may run concurrently.
Reqs == {"r1", "r2"}

NoOne == "none"

(* ---------------------------- JSON values ------------------------------ *)

JInvalid == [t |-> "invalid"]
JNull == [t |-> "null"]
JStr(s) == [t |-> "string", s |-> s]
JNum(n) == [t |-> "number", n |-> n]
JObj(f) == [t |-> "object", fields |-> f]
JArr(e) == [t |-> "array", elems |-> e]
JText(s) == [t |-> "text", s |-> s]

\* type Product struct { Name string `json:"name"`; Price float64 `json:"price"` }
Product(name, price) == [Name |-> name, Price |-> price]

ZeroProduct == Product("", 0)

SyntaxErr == "invalid character looking for beginning of value"
TypeErr == "json: cannot unmarshal into Go value of type main.Product"

NameFieldBad(f) ==
    "name" \in DOMAIN f /\ f["name"].t \notin {"string", "null"}

PriceFieldBad(f) ==
    "price" \in DOMAIN f /\ f["price"].t \notin {"number", "null"}

\* json.Unmarshal(body, &product) with product the zero Product: a JSON null
\* is a no-op, an object sets the fields whose keys are "name" and "price"
\* (a null member leaves the field, an unknown key is ignored), a member of
\* the wrong JSON type and a non-object value are type errors, and bytes
\* that are not JSON are a syntax error.
Unmarshal(body) ==
    CASE body.t = "invalid" -> [err |-> SyntaxErr, product |-> ZeroProduct]
      [] body.t = "null" -> [err |-> "", product |-> ZeroProduct]
      [] body.t = "object" ->
            LET f == body.fields
                n == IF "name" \in DOMAIN f /\ f["name"].t = "string"
                     THEN f["name"].s ELSE ""
                p == IF "price" \in DOMAIN f /\ f["price"].t = "number"
                     THEN f["price"].n ELSE 0
            IN  [err |-> IF NameFieldBad(f) \/ PriceFieldBad(f) THEN TypeErr ELSE "",
                 product |-> Product(n, p)]
      [] OTHER -> [err |-> TypeErr, product |-> ZeroProduct]

\* json.Marshal of a Product, of the Products slice and of the error map.
MarshalProduct(p) == JObj([name |-> JStr(p.Name), price |-> JNum(p.Price)])

MarshalProducts(ps) == JArr([i \in 1..Len(ps) |-> MarshalProduct(ps[i])])

MarshalError(msg) == JObj([error |-> JStr(msg)])

\* returnJSONResponse / returnErrorResponse: the status code and the body.
returnJSONResponse(code, data) == [code |-> code, body |-> data]

returnErrorResponse(code, msg) == returnJSONResponse(code, MarshalError(msg))

NoResp == [code |-> 0, body |-> JNull]

(* ---------------------------- URL parsing ------------------------------ *)

DigitVal ==
    ("0" :> 0) @@ ("1" :> 1) @@ ("2" :> 2) @@ ("3" :> 3) @@ ("4" :> 4) @@
    ("5" :> 5) @@ ("6" :> 6) @@ ("7" :> 7) @@ ("8" :> 8) @@ ("9" :> 9)

RECURSIVE SplitFrom(_, _, _)
\* strings.Split(s, sep) for a one-character sep: cur is the part being read.
SplitFrom(s, sep, cur) ==
    IF s = <<>> THEN <<cur>>
    ELSE IF Head(s) = sep THEN <<cur>> \o SplitFrom(Tail(s), sep, <<>>)
    ELSE SplitFrom(Tail(s), sep, Append(cur, Head(s)))

Split(s, sep) == SplitFrom(s, sep, <<>>)

RECURSIVE DigitsValue(_, _)
\* the base-10 value of a run of digits, most significant first
DigitsValue(s, acc) ==
    IF s = <<>> THEN acc ELSE DigitsValue(Tail(s), acc * 10 + DigitVal[Head(s)])

\* strconv.Atoi: an optional sign, then at least one digit and digits only.
Atoi(s) ==
    LET signed == s # <<>> /\ Head(s) \in {"+", "-"}
        digits == IF signed THEN Tail(s) ELSE s
        ok == digits # <<>> /\ \A i \in 1..Len(digits) : digits[i] \in DOMAIN DigitVal
        v == IF ok THEN DigitsValue(digits, 0) ELSE 0
    IN  [err |-> ~ok, val |-> IF signed /\ Head(s) = "-" THEN 0 - v ELSE v]

\* A path check that takes the last part of any URL of three or more parts.
getIdFromLastPart(url) ==
    LET urlParts == Split(url, "/")
        partsLength == Len(urlParts)
    IN  IF partsLength < 3 THEN [err |-> "id or resource not found", id |-> 0]
        ELSE LET a == Atoi(urlParts[partsLength])
             IN  IF a.err THEN [err |-> "malformed id", id |-> 0]
                 ELSE [err |-> "", id |-> a.val]

\* getIdFromRequestPath: the URL must split into exactly three parts on "/"
\* and the last must convert to an int.
getIdFromRequestPath(url) ==
    LET urlParts == Split(url, "/")
        partsLength == Len(urlParts)
    IN  IF partsLength # 3 THEN [err |-> "id or resource not found", id |-> 0]
        ELSE LET a == Atoi(urlParts[partsLength])
             IN  IF a.err THEN [err |-> "malformed id", id |-> 0]
                 ELSE [err |-> "", id |-> a.val]

(* ---------------------------- requests --------------------------------- *)

PathProducts == <<"/", "p", "r", "o", "d", "u", "c", "t", "s">>

Path(tail) == PathProducts \o <<"/">> \o tail

ContentTypes == {"application/json", "text/plain"}

\* The request bodies the model sends: bytes that are not JSON (JInvalid), a
\* whole product, a product with an empty name (price only), a product with
\* price 0 (name only), a JSON object whose name has the wrong type, and for
\* PUT also the JSON values null and [].
BodyFull == JObj([name |-> JStr("x"), price |-> JNum(5)])

BodyPriceOnly == JObj([name |-> JStr(""), price |-> JNum(5)])

BodyNameOnly == JObj([name |-> JStr("x"), price |-> JNum(0)])

BodyTypeErr == JObj([name |-> JNum(5)])

Request(m, u, ct, b, re) ==
    [method |-> m, url |-> u, contentType |-> ct, body |-> b, readErr |-> re]

NoRequest == Request("", <<>>, "", JInvalid, FALSE)

\* URLs whose last segment is an id (the first index, the indexes a POST
\* creates, 99, -1), and URLs that yield no id (no id segment, an empty or
\* non-numeric id, one segment too many).
IdUrls ==
    { Path(<<"0">>), Path(<<"3">>), Path(<<"4">>), Path(<<"9", "9">>), Path(<<"-", "1">>) }

BadUrls == {PathProducts, Path(<<>>), Path(<<"x">>), Path(<<"0", "/", "1">>)}

GetRequests == { Request("GET", u, "", JInvalid, FALSE) : u \in IdUrls \cup BadUrls }

PostRequests ==
    { Request("POST", PathProducts, "application/json", b, FALSE) :
        b \in {BodyFull, BodyPriceOnly, JInvalid, BodyTypeErr} }
      \cup { Request("POST", PathProducts, "text/plain", b, FALSE) : b \in {BodyFull, JInvalid} }
      \cup { Request("POST", PathProducts, "application/json", JInvalid, TRUE) }

PutRequests ==
    { Request("PUT", u, "application/json", b, FALSE) :
        u \in {Path(<<"0">>), Path(<<"3">>)}, b \in {BodyFull, BodyPriceOnly, BodyNameOnly} }
      \cup { Request("PUT", u, "application/json", BodyFull, FALSE) :
               u \in {Path(<<"9", "9">>), Path(<<"-", "1">>)} \cup BadUrls }
      \cup { Request("PUT", u, ct, b, FALSE) :
               u \in {Path(<<"0">>), Path(<<"9", "9">>)},
               ct \in ContentTypes, b \in {JInvalid, BodyTypeErr} }
      \cup { Request("PUT", Path(<<"0">>), "application/json", b, FALSE) :
               b \in {JNull, JArr(<<>>)} }
      \cup { Request("PUT", u, "text/plain", BodyFull, FALSE) :
               u \in {Path(<<"0">>), Path(<<"9", "9">>), Path(<<"x">>)} }
      \cup { Request("PUT", Path(<<"0">>), "application/json", JInvalid, TRUE) }

OtherRequests ==
    { Request("DELETE", u, "", JInvalid, FALSE) : u \in {Path(<<"0">>), Path(<<"9", "9">>)} }
      \cup { Request("PATCH", u, "", JInvalid, FALSE) : u \in {PathProducts, Path(<<"0">>)} }

Requests == GetRequests \cup PostRequests \cup PutRequests \cup OtherRequests

\* One request of Requests for each path through the handlers: get with no
\* id, an id in range, an id out of range; post stored, refused for its
\* content type, its body, a failed read; put refused for its path, a failed
\* read, its content type, its body, its id, and put stored; delete; a
\* method the switch does not know.
PathRequests ==
    { Request("GET", u, "", JInvalid, FALSE) :
        u \in {PathProducts, Path(<<"0">>), Path(<<"9", "9">>)} }
      \cup { Request("POST", PathProducts, "application/json", BodyFull, FALSE),
              Request("POST", PathProducts, "text/plain", BodyFull, FALSE),
              Request("POST", PathProducts, "application/json", JInvalid, FALSE),
              Request("POST", PathProducts, "application/json", JInvalid, TRUE) }
      \cup { Request("PUT", Path(<<"x">>), "application/json", BodyFull, FALSE),
              Request("PUT", Path(<<"0">>), "application/json", JInvalid, TRUE),
              Request("PUT", Path(<<"0">>), "text/plain", BodyFull, FALSE),
              Request("PUT", Path(<<"0">>), "application/json", JInvalid, FALSE),
              Request("PUT", Path(<<"9", "9">>), "application/json", BodyFull, FALSE),
              Request("PUT", Path(<<"0">>), "application/json", BodyPriceOnly, FALSE) }
      \cup { Request("DELETE", Path(<<"0">>), "", JInvalid, FALSE),
              Request("PATCH", PathProducts, "", JInvalid, FALSE) }

\* getIdFromRequestPath of each URL that a request carries, evaluated once.
UrlId == [u \in {q.url : q \in Requests} |-> getIdFromRequestPath(u)]

(* ---------------------------- the weather proxy: state ----------------- *)

\* cmd/weather/weather_data.go is a program of its own: a slot w holds the
\* request path, the city cut from it, the upstream reply, the result of
\* queryWeather and the response of one request in flight.
VARIABLES wpc, wpath, city, upstream, result, wresp

wvars == <<wpc, wpath, city, upstream, result, wresp>>

WReqs == {"w1", "w2"}

\* type WeatherData struct { Name string; Main struct { TempKelvin float64 } }
WeatherData(name, temp) == [Name |-> name, Main |-> [TempKelvin |-> temp]]

ZeroWeather == WeatherData("", 0)

NoReply == [err |-> "", body |-> JNull]

NoResult == [err |-> "", data |-> ZeroWeather]

\* main of the weather proxy: no request is in flight.
WeatherInit ==
    /\ wpc = [w \in WReqs |-> "idle"]
    /\ wpath = [w \in WReqs |-> <<>>]
    /\ city = [w \in WReqs |-> <<>>]
    /\ upstream = [w \in WReqs |-> NoReply]
    /\ result = [w \in WReqs |-> NoResult]
    /\ wresp = [w \in WReqs |-> NoResp]

(* ---------------------------- the service ------------------------------ *)

\* main: the handler is constructed with three products and an unlocked mutex.
SeedProducts == <<Product("food", 10), Product("car", 250), Product("gadgets", 50)>>

Init ==
    /\ products = SeedProducts
    /\ lock = NoOne
    /\ pc = [r \in Reqs |-> "idle"]
    /\ req = [r \in Reqs |-> NoRequest]
    /\ id = [r \in Reqs |-> 0]
    /\ product = [r \in Reqs |-> ZeroProduct]
    /\ resp = [r \in Reqs |-> NoResp]
    /\ WeatherInit

\* POSTs that have been accepted and have not yet appended or failed.
PendingPosts == {q \in Reqs : pc[q] \in {"post_decode", "post_lock", "post_append"}}

\* The handler's goroutine ends: its request, locals and response are gone.
Ended(r) ==
    /\ pc' = [pc EXCEPT ![r] = "idle"]
    /\ req' = [req EXCEPT ![r] = NoRequest]
    /\ id' = [id EXCEPT ![r] = 0]
    /\ product' = [product EXCEPT ![r] = ZeroProduct]
    /\ resp' = [resp EXCEPT ![r] = NoResp]

\* A switch without the default case: an unknown method runs the last case.
RouteFallThrough(m) ==
    CASE m = "POST" -> "post_decode"
      [] m = "GET" -> "get_lock"
      [] m = "PUT" -> "put_decode"
      [] OTHER -> "delete"

\* ServeHTTP, lines 45-57: where the switch on the method sends the request;
\* "return" is the default case, which answers and returns.
Route(m) ==
    CASE m = "POST" -> "post_decode"
      [] m = "GET" -> "get_lock"
      [] m = "PUT" -> "put_decode"
      [] m = "DELETE" -> "delete"
      [] OTHER -> "return"

\* ServeHTTP for a request of S: the server hands the request to the handler
\* on a goroutine of its own, and the handler dispatches on the method; any
\* method other than POST, GET, PUT and DELETE is answered 405.
Arrive(r, S) ==
    /\ pc[r] = "idle"
    /\ \E q \in S :
          /\ q.method = "POST" => Len(products) + Cardinality(PendingPosts) < MaxProducts
          /\ req' = [req EXCEPT ![r] = q]
          /\ pc' = [pc EXCEPT ![r] = Route(q.method)]
          /\ resp' = [resp EXCEPT ![r] =
                        IF Route(q.method) = "return"
                        THEN returnErrorResponse(405, "Invalid HTTP method")
                        ELSE NoResp]
    /\ UNCHANGED <<products, lock, id, product>>
    /\ UNCHANGED wvars

ServeHTTP(r) == Arrive(r, Requests)

\* A handler that answered without taking the lock returns.
Return(r) ==
    /\ pc[r] = "return"
    /\ Ended(r)
    /\ UNCHANGED <<products, lock>>
    /\ UNCHANGED wvars

\* Lock without waiting for the holder to release.
LockNoWait(r) == lock' = r

\* ph.Lock(): blocks until the mutex is free, then takes it.
Lock(r) == lock = NoOne /\ lock' = r

\* ph.Unlock(), run by the handler's deferred call when it returns.
Unlock(r) == lock' = NoOne

\* post that does not return on a decode error and stores the zero product.
PostDecodeIgnoreErr(r) ==
    /\ pc[r] = "post_decode"
    /\ LET q == req[r]
           u == Unmarshal(q.body)
       IN  IF q.readErr
           THEN /\ resp' = [resp EXCEPT ![r] = returnErrorResponse(500, "unexpected EOF")]
                /\ pc' = [pc EXCEPT ![r] = "return"]
                /\ UNCHANGED product
           ELSE IF q.contentType # "application/json"
           THEN /\ resp' = [resp EXCEPT ![r] =
                              returnErrorResponse(415, "Content type should be application/json.")]
                /\ pc' = [pc EXCEPT ![r] = "return"]
                /\ UNCHANGED product
           ELSE /\ product' = [product EXCEPT ![r] = u.product]
                /\ pc' = [pc EXCEPT ![r] = "post_lock"]
                /\ UNCHANGED resp
    /\ UNCHANGED <<products, lock, req, id>>
    /\ UNCHANGED wvars

\* post, lines 90-116: read the body, check the content type, decode the body.
PostDecode(r) ==
    /\ pc[r] = "post_decode"
    /\ LET q == req[r]
           u == Unmarshal(q.body)
       IN  IF q.readErr
           THEN /\ resp' = [resp EXCEPT ![r] = returnErrorResponse(500, "unexpected EOF")]
                /\ pc' = [pc EXCEPT ![r] = "return"]
                /\ UNCHANGED product
           ELSE IF q.contentType # "application/json"
           THEN /\ resp' = [resp EXCEPT ![r] =
                              returnErrorResponse(415, "Content type should be application/json.")]
                /\ pc' = [pc EXCEPT ![r] = "return"]
                /\ UNCHANGED product
           ELSE IF u.err # ""
           THEN /\ resp' = [resp EXCEPT ![r] = returnErrorResponse(400, u.err)]
                /\ pc' = [pc EXCEPT ![r] = "return"]
                /\ UNCHANGED product
           ELSE /\ product' = [product EXCEPT ![r] = u.product]
                /\ pc' = [pc EXCEPT ![r] = "post_lock"]
                /\ UNCHANGED resp
    /\ UNCHANGED <<products, lock, req, id>>
    /\ UNCHANGED wvars

\* post, line 120
PostLock(r) ==
    /\ pc[r] = "post_lock"
    /\ Lock(r)
    /\ pc' = [pc EXCEPT ![r] = "post_append"]
    /\ UNCHANGED <<products, req, id, product, resp>>
    /\ UNCHANGED wvars

\* post that puts the new product first.
PostPrepend(r) ==
    /\ pc[r] = "post_append"
    /\ products' = <<product[r]>> \o products
    /\ resp' = [resp EXCEPT ![r] = returnJSONResponse(201, MarshalProduct(product[r]))]
    /\ pc' = [pc EXCEPT ![r] = "post_unlock"]
    /\ UNCHANGED <<lock, req, id, product>>
    /\ UNCHANGED wvars

\* post that stores the new product over the last one.
PostReplaceLast(r) ==
    /\ pc[r] = "post_append"
    /\ products' = [products EXCEPT ![Len(products)] = product[r]]
    /\ resp' = [resp EXCEPT ![r] = returnJSONResponse(201, MarshalProduct(product[r]))]
    /\ pc' = [pc EXCEPT ![r] = "post_unlock"]
    /\ UNCHANGED <<lock, req, id, product>>
    /\ UNCHANGED wvars

\* post, lines 123-125: append the product and answer 201 with it.
PostAppend(r) ==
    /\ pc[r] = "post_append"
    /\ products' = Append(products, product[r])
    /\ resp' = [resp EXCEPT ![r] = returnJSONResponse(201, MarshalProduct(product[r]))]
    /\ pc' = [pc EXCEPT ![r] = "post_unlock"]
    /\ UNCHANGED <<lock, req, id, product>>
    /\ UNCHANGED wvars

\* post, line 118 (deferred)
PostUnlock(r) ==
    /\ pc[r] = "post_unlock"
    /\ Unlock(r)
    /\ Ended(r)
    /\ UNCHANGED products
    /\ UNCHANGED wvars

\* A range test that also rejects the first index.
InRangeFromOne(i, ps) == ~(i <= 0 \/ i >= Len(ps))

\* get, line 146, and put, line 195: the range test on the id
InRange(i, ps) == ~(i < 0 \/ i >= Len(ps))

\* get that goes on to read the slice without taking the lock.
GetLockSkip(r) ==
    /\ pc[r] = "get_lock"
    /\ pc' = [pc EXCEPT ![r] = "get_read"]
    /\ UNCHANGED <<products, lock, req, id, product, resp>>
    /\ UNCHANGED wvars

\* get, line 135
GetLock(r) ==
    /\ pc[r] = "get_lock"
    /\ Lock(r)
    /\ pc' = [pc EXCEPT ![r] = "get_read"]
    /\ UNCHANGED <<products, req, id, product, resp>>
    /\ UNCHANGED wvars

\* get that answers 404, as put does, when the path yields no id.
GetNotFoundOnBadPath(r) ==
    /\ pc[r] = "get_read"
    /\ LET g == UrlId[req[r].url]
       IN  /\ id' = [id EXCEPT ![r] = g.id]
           /\ resp' = [resp EXCEPT ![r] =
                 IF g.err # "" THEN returnErrorResponse(404, g.err)
                 ELSE IF ~InRange(g.id, products)
                 THEN returnErrorResponse(404, "Product Id doesn't exist.")
                 ELSE returnJSONResponse(200, MarshalProduct(products[g.id + 1]))]
    /\ pc' = [pc EXCEPT ![r] = "get_unlock"]
    /\ UNCHANGED <<products, lock, req, product>>
    /\ UNCHANGED wvars

\* get, lines 137-152: all products when the path yields no id, else the
\* product at id, or 404 when id is out of range.
Get(r) ==
    /\ pc[r] = "get_read"
    /\ LET g == UrlId[req[r].url]
       IN  /\ id' = [id EXCEPT ![r] = g.id]
           /\ resp' = [resp EXCEPT ![r] =
                 IF g.err # "" THEN returnJSONResponse(200, MarshalProducts(products))
                 ELSE IF ~InRange(g.id, products)
                 THEN returnErrorResponse(404, "Product Id doesn't exist.")
                 ELSE returnJSONResponse(200, MarshalProduct(products[g.id + 1]))]
    /\ pc' = [pc EXCEPT ![r] = "get_unlock"]
    /\ UNCHANGED <<products, lock, req, product>>
    /\ UNCHANGED wvars

\* get, line 133 (deferred)
GetUnlock(r) ==
    /\ pc[r] = "get_unlock"
    /\ Unlock(r)
    /\ Ended(r)
    /\ UNCHANGED products
    /\ UNCHANGED wvars

\* put that decodes the body before it looks at the content type.
PutDecodeBodyFirst(r) ==
    /\ pc[r] = "put_decode"
    /\ LET q == req[r]
           g == UrlId[q.url]
           u == Unmarshal(q.body)
       IN  IF g.err # ""
           THEN /\ resp' = [resp EXCEPT ![r] = returnErrorResponse(404, g.err)]
                /\ pc' = [pc EXCEPT ![r] = "return"]
                /\ UNCHANGED <<id, product>>
           ELSE IF q.readErr
           THEN /\ resp' = [resp EXCEPT ![r] = returnErrorResponse(500, "unexpected EOF")]
                /\ pc' = [pc EXCEPT ![r] = "return"]
                /\ id' = [id EXCEPT ![r] = g.id]
                /\ UNCHANGED product
           ELSE IF u.err # ""
           THEN /\ resp' = [resp EXCEPT ![r] = returnErrorResponse(400, u.err)]
                /\ pc' = [pc EXCEPT ![r] = "return"]
                /\ id' = [id EXCEPT ![r] = g.id]
                /\ UNCHANGED product
           ELSE IF q.contentType # "application/json"
           THEN /\ resp' = [resp EXCEPT ![r] =
                              returnErrorResponse(415, "Content type should be application/json.")]
                /\ pc' = [pc EXCEPT ![r] = "return"]
                /\ id' = [id EXCEPT ![r] = g.id]
                /\ UNCHANGED product
           ELSE /\ id' = [id EXCEPT ![r] = g.id]
                /\ product' = [product EXCEPT ![r] = u.product]
                /\ pc' = [pc EXCEPT ![r] = "put_lock"]
                /\ UNCHANGED resp
    /\ UNCHANGED <<products, lock, req>>
    /\ UNCHANGED wvars

\* put, lines 157-189: parse the id, read the body, check the content type,
\* decode the body.
PutDecode(r) ==
    /\ pc[r] = "put_decode"
    /\ LET q == req[r]
           g == UrlId[q.url]
           u == Unmarshal(q.body)
       IN  IF g.err # ""
           THEN /\ resp' = [resp EXCEPT ![r] = returnErrorResponse(404, g.err)]
                /\ pc' = [pc EXCEPT ![r] = "return"]
                /\ UNCHANGED <<id, product>>
           ELSE IF q.readErr
           THEN /\ resp' = [resp EXCEPT ![r] = returnErrorResponse(500, "unexpected EOF")]
                /\ pc' = [pc EXCEPT ![r] = "return"]
                /\ id' = [id EXCEPT ![r] = g.id]
                /\ UNCHANGED product
           ELSE IF q.contentType # "application/json"
           THEN /\ resp' = [resp EXCEPT ![r] =
                              returnErrorResponse(415, "Content type should be application/json.")]
                /\ pc' = [pc EXCEPT ![r] = "return"]
                /\ id' = [id EXCEPT ![r] = g.id]
                /\ UNCHANGED product
           ELSE IF u.err # ""
           THEN /\ resp' = [resp EXCEPT ![r] = returnErrorResponse(400, u.err)]
                /\ pc' = [pc EXCEPT ![r] = "return"]
                /\ id' = [id EXCEPT ![r] = g.id]
                /\ UNCHANGED product
           ELSE /\ id' = [id EXCEPT ![r] = g.id]
                /\ product' = [product EXCEPT ![r] = u.product]
                /\ pc' = [pc EXCEPT ![r] = "put_lock"]
                /\ UNCHANGED resp
    /\ UNCHANGED <<products, lock, req>>
    /\ UNCHANGED wvars

\* put that goes on to the range test without taking the lock.
PutLockSkip(r) ==
    /\ pc[r] = "put_lock"
    /\ pc' = [pc EXCEPT ![r] = "put_check"]
    /\ UNCHANGED <<products, lock, req, id, product, resp>>
    /\ UNCHANGED wvars

\* put, line 192
PutLock(r) ==
    /\ pc[r] = "put_lock"
    /\ Lock(r)
    /\ pc' = [pc EXCEPT ![r] = "put_check"]
    /\ UNCHANGED <<products, req, id, product, resp>>
    /\ UNCHANGED wvars

\* put that answers an id out of range with 400.
PutCheckBadRequest(r) ==
    /\ pc[r] = "put_check"
    /\ IF InRange(id[r], products)
       THEN /\ pc' = [pc EXCEPT ![r] = "put_update"]
            /\ UNCHANGED resp
       ELSE /\ resp' = [resp EXCEPT ![r] =
                          returnErrorResponse(400, "Product Id doesn't exist.")]
            /\ pc' = [pc EXCEPT ![r] = "put_unlock"]
    /\ UNCHANGED <<products, lock, req, id, product>>
    /\ UNCHANGED wvars

\* put whose 404 for an id out of range returns without the deferred Unlock.
PutCheckNoUnlock(r) ==
    /\ pc[r] = "put_check"
    /\ IF InRange(id[r], products)
       THEN /\ pc' = [pc EXCEPT ![r] = "put_update"]
            /\ UNCHANGED resp
       ELSE /\ resp' = [resp EXCEPT ![r] =
                          returnErrorResponse(404, "Product Id doesn't exist.")]
            /\ pc' = [pc EXCEPT ![r] = "return"]
    /\ UNCHANGED <<products, lock, req, id, product>>
    /\ UNCHANGED wvars

\* put, lines 195-198: 404 when the id is not an index of the slice.
PutCheck(r) ==
    /\ pc[r] = "put_check"
    /\ IF InRange(id[r], products)
       THEN /\ pc' = [pc EXCEPT ![r] = "put_update"]
            /\ UNCHANGED resp
       ELSE /\ resp' = [resp EXCEPT ![r] =
                          returnErrorResponse(404, "Product Id doesn't exist.")]
            /\ pc' = [pc EXCEPT ![r] = "put_unlock"]
    /\ UNCHANGED <<products, lock, req, id, product>>
    /\ UNCHANGED wvars

\* put that stores the request's product whole.
MergeOverwrite(stored, p) == p

\* put, lines 201-208: a non-empty name replaces the stored name, a
\* non-zero price the stored price.
Merge(stored, p) ==
    [Name |-> IF p.Name # "" THEN p.Name ELSE stored.Name,
     Price |-> IF p.Price # 0 THEN p.Price ELSE stored.Price]

\* put, lines 201-210: update the product at id and answer 200 with it.
PutUpdate(r) ==
    /\ pc[r] = "put_update"
    /\ products' = [products EXCEPT ![id[r] + 1] = Merge(@, product[r])]
    /\ resp' = [resp EXCEPT ![r] = returnJSONResponse(200, MarshalProduct(products'[id[r] + 1]))]
    /\ pc' = [pc EXCEPT ![r] = "put_unlock"]
    /\ UNCHANGED <<lock, req, id, product>>
    /\ UNCHANGED wvars

\* put, line 191 (deferred)
PutUnlock(r) ==
    /\ pc[r] = "put_unlock"
    /\ Unlock(r)
    /\ Ended(r)
    /\ UNCHANGED products
    /\ UNCHANGED wvars

\* delete that removes the product at the id of the path.
DeleteRemoves(r) ==
    /\ pc[r] = "delete"
    /\ LET g == UrlId[req[r].url]
       IN  products' = IF g.err = "" /\ InRange(g.id, products)
                       THEN SubSeq(products, 1, g.id) \o SubSeq(products, g.id + 2, Len(products))
                       ELSE products
    /\ resp' = [resp EXCEPT ![r] = [code |-> 200, body |-> JText("Delete!")]]
    /\ pc' = [pc EXCEPT ![r] = "return"]
    /\ UNCHANGED <<lock, req, id, product>>
    /\ UNCHANGED wvars

\* delete, line 215: writes the text "Delete!" (status 200 by default).
Delete(r) ==
    /\ pc[r] = "delete"
    /\ resp' = [resp EXCEPT ![r] = [code |-> 200, body |-> JText("Delete!")]]
    /\ pc' = [pc EXCEPT ![r] = "return"]
    /\ UNCHANGED <<products, lock, req, id, product>>
    /\ UNCHANGED wvars

Next ==
    \E r \in Reqs :
        \/ ServeHTTP(r)
        \/ Return(r)
        \/ PostDecode(r)
        \/ PostLock(r)
        \/ PostAppend(r)
        \/ PostUnlock(r)
        \/ GetLock(r)
        \/ Get(r)
        \/ GetUnlock(r)
        \/ PutDecode(r)
        \/ PutLock(r)
        \/ PutCheck(r)
        \/ PutUpdate(r)
        \/ PutUnlock(r)
        \/ Delete(r)

Spec == Init /\ [][Next]_vars

\* The steps of request r's goroutine once it has been started: the ones
\* that wait for the mutex, and all the others.
LockStep(r) == PostLock(r) \/ GetLock(r) \/ PutLock(r)

RunStep(r) ==
    \/ Return(r) \/ PostDecode(r) \/ PostAppend(r) \/ PostUnlock(r)
    \/ Get(r) \/ GetUnlock(r)
    \/ PutDecode(r) \/ PutCheck(r) \/ PutUpdate(r) \/ PutUnlock(r)
    \/ Delete(r)

\* ServeHTTP for the requests that between them take every path.
ServePath(r) == Arrive(r, PathRequests)

FairNext ==
    \E r \in Reqs :
        \/ ServePath(r)
        \/ Return(r)
        \/ PostDecode(r)
        \/ PostLock(r)
        \/ PostAppend(r)
        \/ PostUnlock(r)
        \/ GetLock(r)
        \/ Get(r)
        \/ GetUnlock(r)
        \/ PutDecode(r)
        \/ PutLock(r)
        \/ PutCheck(r)
        \/ PutUpdate(r)
        \/ PutUnlock(r)
        \/ Delete(r)

\* The Go scheduler runs every runnable goroutine eventually, and a
\* sync.Mutex hands the lock to a goroutine that keeps waiting for it
\* (starvation mode), so a waiter gets the lock if it is free again and again.
\* Requests keep arriving or stop arriving: no fairness on arrival.
FairSpec ==
    /\ Init
    /\ [][FairNext]_vars
    /\ \A r \in Reqs : WF_vars(RunStep(r)) /\ SF_vars(LockStep(r))

(* ---------------------------- the weather proxy ------------------------ *)

RECURSIVE SplitNFrom(_, _, _, _)
\* strings.SplitN(s, sep, n) for a one-character sep and n >= 1: at most n
\* parts, the last one being the unsplit rest.
SplitNFrom(s, sep, n, cur) ==
    IF n = 1 THEN <<cur \o s>>
    ELSE IF s = <<>> THEN <<cur>>
    ELSE IF Head(s) = sep THEN <<cur>> \o SplitNFrom(Tail(s), sep, n - 1, <<>>)
    ELSE SplitNFrom(Tail(s), sep, n, Append(cur, Head(s)))

SplitN(s, sep, n) == SplitNFrom(s, sep, n, <<>>)

PathWeather == <<"/", "w", "e", "a", "t", "h", "e", "r", "/">>

London == <<"L", "o", "n", "d", "o", "n">>

\* The request paths the model sends, all under the pattern "/weather/": a
\* city, no city, and a city with a slash in it.
WeatherPaths == {PathWeather \o London, PathWeather, PathWeather \o <<"a", "/", "b">>}

\* What http.Get can bring back: a transport error, or a body, which is not
\* JSON, or the weather API's full answer, or exactly {name, main:{temp}}, or
\* the API's error object (no name, no main), or JSON null, or an object
\* whose name or main has the wrong type.
UpstreamBodies ==
    { JInvalid,
      JObj([name |-> JStr("London"), cod |-> JNum(200),
            main |-> JObj([temp |-> JNum(280), humidity |-> JNum(81)])]),
      JObj([name |-> JStr("Paris"), main |-> JObj([temp |-> JNum(290)])]),
      JObj([cod |-> JStr("404"), message |-> JStr("city not found")]),
      JNull,
      JObj([name |-> JNum(7), main |-> JObj([temp |-> JNum(280)])]),
      JObj([name |-> JStr("London"), main |-> JStr("hot")]) }

TransportErr == "Get: dial tcp: connection refused"

UpstreamReplies ==
    { [err |-> "", body |-> b] : b \in UpstreamBodies }
      \cup { [err |-> TransportErr, body |-> JNull] }

WeatherTypeErr == "json: cannot unmarshal into Go value of type main.WeatherData"

\* The "main" member of the upstream object, decoded into WeatherData.Main.
MainBad(f) ==
    /\ "main" \in DOMAIN f
    /\ \/ f["main"].t \notin {"object", "null"}
       \/ /\ f["main"].t = "object"
          /\ "temp" \in DOMAIN f["main"].fields
          /\ f["main"].fields["temp"].t \notin {"number", "null"}

\* json.NewDecoder(body).Decode(&d) with d the zero WeatherData: the fields
\* "name" and "main"."temp" are taken, every other member is skipped.
DecodeWeather(body) ==
    CASE body.t = "invalid" -> [err |-> SyntaxErr, data |-> ZeroWeather]
      [] body.t = "null" -> [err |-> "", data |-> ZeroWeather]
      [] body.t = "object" ->
            LET f == body.fields
                n == IF "name" \in DOMAIN f /\ f["name"].t = "string"
                     THEN f["name"].s ELSE ""
                m == IF "main" \in DOMAIN f /\ f["main"].t = "object"
                     THEN f["main"].fields ELSE [none |-> JNull]
                t == IF "temp" \in DOMAIN m /\ m["temp"].t = "number"
                     THEN m["temp"].n ELSE 0
            IN  [err |-> IF NameFieldBad(f) \/ MainBad(f) THEN WeatherTypeErr ELSE "",
                 data |-> WeatherData(n, t)]
      [] OTHER -> [err |-> WeatherTypeErr, data |-> ZeroWeather]

\* An encoder that writes the Go field names instead of the json tags.
EncodeWeatherUntagged(d) ==
    JObj([Name |-> JStr(d.Name), Main |-> JObj([TempKelvin |-> JNum(d.Main.TempKelvin)])])

\* json.NewEncoder(w).Encode(data) with the struct's json tags.
EncodeWeather(d) ==
    JObj([name |-> JStr(d.Name), main |-> JObj([temp |-> JNum(d.Main.TempKelvin)])])

\* weatherRequestHandler, line 35: a request arrives and the city is the
\* third part of its path.
weatherRequestHandler(w) ==
    /\ wpc[w] = "idle"
    /\ \E p \in WeatherPaths :
          /\ wpath' = [wpath EXCEPT ![w] = p]
          /\ city' = [city EXCEPT ![w] = SplitN(p, "/", 3)[3]]
    /\ wpc' = [wpc EXCEPT ![w] = "http_get"]
    /\ UNCHANGED <<upstream, result, wresp>>
    /\ UNCHANGED vars

\* queryWeather, lines 53-57: the blocking call to the upstream API; a
\* transport error is returned with the zero WeatherData.
HttpGet(w) ==
    /\ wpc[w] = "http_get"
    /\ \E reply \in UpstreamReplies :
          /\ upstream' = [upstream EXCEPT ![w] = reply]
          /\ IF reply.err # ""
             THEN /\ result' = [result EXCEPT ![w] = [err |-> reply.err, data |-> ZeroWeather]]
                  /\ wpc' = [wpc EXCEPT ![w] = "respond"]
             ELSE /\ wpc' = [wpc EXCEPT ![w] = "decode"]
                  /\ UNCHANGED result
    /\ UNCHANGED <<wpath, city, wresp>>
    /\ UNCHANGED vars

\* queryWeather that returns what was decoded and drops the decode error.
DecodeIgnoreErr(w) ==
    /\ wpc[w] = "decode"
    /\ result' = [result EXCEPT ![w] =
                    [err |-> "", data |-> DecodeWeather(upstream[w].body).data]]
    /\ wpc' = [wpc EXCEPT ![w] = "respond"]
    /\ UNCHANGED <<wpath, city, upstream, wresp>>
    /\ UNCHANGED vars

\* queryWeather, lines 65-69: decode the body; a decode error is returned
\* with the zero WeatherData.
Decode(w) ==
    /\ wpc[w] = "decode"
    /\ LET d == DecodeWeather(upstream[w].body)
       IN  result' = [result EXCEPT ![w] =
                        IF d.err # "" THEN [err |-> d.err, data |-> ZeroWeather]
                        ELSE [err |-> "", data |-> d.data]]
    /\ wpc' = [wpc EXCEPT ![w] = "respond"]
    /\ UNCHANGED <<wpath, city, upstream, wresp>>
    /\ UNCHANGED vars

\* weatherRequestHandler, lines 39-47: 500 with the error text, or the
\* encoded data (status 200 by default).
WeatherRespond(w) ==
    /\ wpc[w] = "respond"
    /\ wresp' = [wresp EXCEPT ![w] =
                   IF result[w].err # ""
                   THEN [code |-> 500, body |-> JText(result[w].err)]
                   ELSE [code |-> 200, body |-> EncodeWeather(result[w].data)]]
    /\ wpc' = [wpc EXCEPT ![w] = "return"]
    /\ UNCHANGED <<wpath, city, upstream, result>>
    /\ UNCHANGED vars

\* The handler returns and its goroutine ends.
WeatherReturn(w) ==
    /\ wpc[w] = "return"
    /\ wpc' = [wpc EXCEPT ![w] = "idle"]
    /\ wpath' = [wpath EXCEPT ![w] = <<>>]
    /\ city' = [city EXCEPT ![w] = <<>>]
    /\ upstream' = [upstream EXCEPT ![w] = NoReply]
    /\ result' = [result EXCEPT ![w] = NoResult]
    /\ wresp' = [wresp EXCEPT ![w] = NoResp]
    /\ UNCHANGED vars

WeatherNext ==
    \E w \in WReqs :
        \/ weatherRequestHandler(w)
        \/ HttpGet(w)
        \/ Decode(w)
        \/ WeatherRespond(w)
        \/ WeatherReturn(w)

WeatherSpec == Init /\ [][WeatherNext]_<<vars, wvars>>

(* ---------------------------- properties ------------------------------ *)

\* The positions between ph.Lock() and the deferred ph.Unlock(); the product
\* slice is read or written by the steps taken from the first four.
AccessPcs == {"post_append", "get_read", "put_check", "put_update"}

HoldingPcs == AccessPcs \cup {"post_unlock", "get_unlock", "put_unlock"}

\* Request r takes a step; the request that step serves; r writes its response.
Step(r) == pc'[r] # pc[r]

Served(r) == IF pc[r] = "idle" THEN req'[r] ELSE req[r]

Answers(r) == resp[r] = NoResp /\ resp'[r] # NoResp

\* The id a URL names, or none.
Names(url, n) == getIdFromRequestPath(url) = [err |-> "", id |-> n]

\* C1: a request that is about to read or write the product collection, or
\* that has done so and not yet unlocked, is the holder of the lock; so at
\* most one request is in that region at a time.
C1_LockGuardsProducts ==
    /\ \A r \in Reqs : pc[r] \in HoldingPcs => lock = r
    /\ Cardinality({r \in Reqs : pc[r] \in HoldingPcs}) <= 1

\* One request is updating a product while another waits for the lock.
C1_Witness ==
    \E r, q \in Reqs : r # q /\ pc[r] = "put_update" /\ pc[q] \in {"get_lock", "post_lock"}

C3_PutUpdatesOnlyGivenFields ==
    [][\A r \in Reqs :
        (Answers(r) /\ req[r].method = "PUT" /\ resp'[r].code = 200)
        => LET g == getIdFromRequestPath(req[r].url)
               i == g.id + 1
               b == Unmarshal(req[r].body).product
           IN  /\ g.err = "" /\ 0 <= g.id /\ g.id < Len(products)
               /\ Len(products') = Len(products)
               /\ \A j \in 1..Len(products) : j # i => products'[j] = products[j]
               /\ products'[i].Name = (IF b.Name = "" THEN products[i].Name ELSE b.Name)
               /\ products'[i].Price = (IF b.Price = 0 THEN products[i].Price ELSE b.Price)
               /\ resp'[r].body = JObj([name |-> JStr(products'[i].Name),
                                        price |-> JNum(products'[i].Price)])
      ]_vars

\* PUT /products/0 with {"name":"","price":5} has answered 200: the first
\* product keeps its name and has the new price.
C3_Witness ==
    \E r \in Reqs :
        /\ pc[r] = "put_unlock" /\ req[r].url = Path(<<"0">>) /\ req[r].body = BodyPriceOnly
        /\ resp[r] = [code |-> 200, body |-> JObj([name |-> JStr("food"), price |-> JNum(5)])]
        /\ products[1] = Product("food", 5)

C5_GetAll ==
    /\ products = <<[Name |-> "food", Price |-> 10], [Name |-> "car", Price |-> 250],
                    [Name |-> "gadgets", Price |-> 50]>>
    /\ [][\A r \in Reqs :
            (Answers(r) /\ req[r].method = "GET" /\ req[r].url = PathProducts)
            => /\ lock = r /\ lock' = r
               /\ resp'[r].code = 200
               /\ resp'[r].body.t = "array"
               /\ Len(resp'[r].body.elems) = Len(products)
               /\ \A i \in 1..Len(products) :
                    resp'[r].body.elems[i] = JObj([name |-> JStr(products[i].Name),
                                                   price |-> JNum(products[i].Price)])
         ]_vars

\* A GET of /products has answered with the three seeded products in order.
C5_Witness ==
    \E r \in Reqs :
        /\ pc[r] = "get_unlock" /\ req[r].url = PathProducts
        /\ resp[r] = [code |-> 200,
                      body |-> JArr(<<JObj([name |-> JStr("food"), price |-> JNum(10)]),
                                      JObj([name |-> JStr("car"), price |-> JNum(250)]),
                                      JObj([name |-> JStr("gadgets"), price |-> JNum(50)])>>)]

\* C6 as stated: a PUT whose path names an id answers 404 whenever the id
\* is out of range, 400 whenever the body is malformed JSON and 415 whenever
\* the content type is not application/json, and changes nothing then.
C6_AsStated ==
    [][\A r \in Reqs :
        (Answers(r) /\ req[r].method = "PUT" /\ ~req[r].readErr)
        => LET g == getIdFromRequestPath(req[r].url)
           IN  g.err = ""
               => /\ ~(0 <= g.id /\ g.id < Len(products)) => resp'[r].code = 404
                  /\ req[r].body = JInvalid => resp'[r].code = 400
                  /\ req[r].contentType # "application/json" => resp'[r].code = 415
                  /\ resp'[r].code \in {404, 400, 415} => products' = products
      ]_vars

\* C6, amended: a PUT whose path names an id and whose body is read answers
\* 415 when the content type is not application/json; 400 when the content
\* type is application/json and the body is malformed JSON; 404 when the
\* content type is application/json, the body decodes and the id is out of
\* range; and a PUT changes the collection only in the step that answers 200.
C6_PutErrors ==
    [][\A r \in Reqs :
        /\ (Answers(r) /\ req[r].method = "PUT" /\ ~req[r].readErr)
           => LET g == getIdFromRequestPath(req[r].url)
                  json == req[r].contentType = "application/json"
              IN  g.err = ""
                  => /\ ~json => resp'[r].code = 415
                     /\ (json /\ req[r].body = JInvalid) => resp'[r].code = 400
                     /\ ( /\ json /\ Unmarshal(req[r].body).err = ""
                          /\ ~(0 <= g.id /\ g.id < Len(products)) ) => resp'[r].code = 404
                     /\ resp'[r].code \in {404, 400, 415} => products' = products
        /\ (Step(r) /\ Served(r).method = "PUT" /\ products' # products)
           => (Answers(r) /\ resp'[r].code = 200)
      ]_vars

\* A PUT to id 99 has answered 404 under the lock, and a PUT sent as
\* text/plain has answered 415; the collection is the seeded one.
C6_Witness ==
    \E r, q \in Reqs :
        /\ pc[r] = "put_unlock" /\ req[r].url = Path(<<"9", "9">>) /\ resp[r].code = 404
        /\ pc[q] = "return" /\ req[q].method = "PUT" /\ req[q].contentType = "text/plain"
        /\ resp[q].code = 415
        /\ products = SeedProducts

\* C7 as stated: a POST whose body is not JSON answers 400 and appends
\* nothing.
C7_AsStated ==
    [][\A r \in Reqs :
        (Answers(r) /\ req[r].method = "POST" /\ ~req[r].readErr /\ req[r].body = JInvalid)
        => (resp'[r].code = 400 /\ products' = products)
      ]_vars

\* C7, amended: a POST whose body is read and is not JSON answers 400 when
\* its content type is application/json and 415 otherwise, and no step of it
\* changes the collection.
C7_PostBadJson ==
    [][\A r \in Reqs :
        LET q == Served(r)
        IN  (q.method = "POST" /\ ~q.readErr /\ q.body = JInvalid)
            => /\ Step(r) => products' = products
               /\ Answers(r) => resp'[r].code =
                                  (IF q.contentType = "application/json" THEN 400 ELSE 415)
      ]_vars

\* A POST of bytes that are not JSON, sent as application/json, has answered
\* 400 and the collection still has its three products.
C7_Witness ==
    \E r \in Reqs :
        /\ pc[r] = "return" /\ req[r].method = "POST" /\ req[r].body = JInvalid
        /\ req[r].contentType = "application/json" /\ ~req[r].readErr
        /\ resp[r].code = 400 /\ Len(products) = 3

\* C8 as stated: a GET or PUT whose path yields no id answers 404.
C8_AsStated ==
    [][\A r \in Reqs :
        (Answers(r) /\ req[r].method \in {"GET", "PUT"} /\ req[r].url \in BadUrls)
        => resp'[r].code = 404
      ]_vars

\* C8, amended: a PUT whose path yields no id answers 404 and changes
\* nothing; a GET with such a path answers 200 with the whole collection.
C8_BadPath ==
    [][\A r \in Reqs :
        LET q == Served(r)
        IN  q.url \in BadUrls
            => /\ (q.method = "PUT" /\ Step(r)) => products' = products
               /\ (q.method = "PUT" /\ Answers(r)) => resp'[r].code = 404
               /\ (q.method = "GET" /\ Answers(r))
                    => /\ resp'[r].code = 200
                       /\ resp'[r].body.t = "array"
                       /\ Len(resp'[r].body.elems) = Len(products)
      ]_vars

\* A PUT to /products/x has answered 404 and a GET of /products/0/1 has
\* answered 200 with a list.
C8_Witness ==
    \E r, q \in Reqs :
        /\ pc[r] = "return" /\ req[r].method = "PUT" /\ req[r].url = Path(<<"x">>)
        /\ resp[r].code = 404
        /\ pc[q] = "get_unlock" /\ req[q].url = Path(<<"0", "/", "1">>)
        /\ resp[q].code = 200 /\ resp[q].body.t = "array"

\* C9: a DELETE answers with the text "Delete!", and no step of it changes
\* the collection or the lock; it never holds the lock.
C9_DeleteStub ==
    [][\A r \in Reqs :
        Served(r).method = "DELETE"
        => /\ Step(r) => (products' = products /\ lock' = lock /\ lock # r)
           /\ (pc[r] = "delete" /\ Step(r)) => resp'[r] = [code |-> 200, body |-> JText("Delete!")]
      ]_vars

\* A DELETE of /products/0 has answered while another request holds the lock,
\* and the collection is the seeded one.
C9_Witness ==
    \E r, q \in Reqs :
        /\ pc[r] = "return" /\ req[r].method = "DELETE" /\ req[r].url = Path(<<"0">>)
        /\ resp[r].body = JText("Delete!")
        /\ pc[q] \in HoldingPcs /\ lock = q
        /\ products = SeedProducts

\* C10: a request whose method is none of GET, POST, PUT and DELETE is
\* answered 405 as soon as it is served, and no step of it changes the
\* collection or the lock.
C10_MethodNotAllowed ==
    [][\A r \in Reqs :
        LET q == Served(r)
        IN  (q \in Requests /\ q.method \notin {"GET", "POST", "PUT", "DELETE"})
            => /\ Step(r) => (products' = products /\ lock' = lock /\ lock # r)
               /\ (pc[r] = "idle" /\ Step(r)) => resp'[r].code = 405
               /\ pc[r] # "idle" => resp[r].code = 405
      ]_vars

\* A PATCH has been answered 405 while another request holds the lock.
C10_Witness ==
    \E r, q \in Reqs :
        /\ pc[r] = "return" /\ req[r].method = "PATCH" /\ resp[r].code = 405
        /\ pc[q] \in HoldingPcs /\ lock = q

\* The steps in which a handler processes its request: path parsing, body
\* read, content-type check, JSON decode, and the work on the collection.
ProcessingPcs == {"post_decode", "put_decode"} \cup AccessPcs

\* C11 as stated: every processing step of a GET, POST or PUT is taken by
\* the holder of the lock, and no two of these requests are past their first
\* processing step and not yet answered at the same time.
C11_AsStated ==
    [][\A r \in Reqs :
        (Step(r) /\ pc[r] \in ProcessingPcs)
        => /\ lock = r
           /\ \A q \in Reqs \ {r} : pc[q] \notin {"post_lock", "put_lock"} \cup HoldingPcs
      ]_vars

\* C11, amended: a GET holds the lock from before its path is parsed until
\* its response is written; a POST or PUT parses, reads, checks and decodes
\* without the lock (and answers 404, 500, 415 and 400 from there without
\* ever taking it) and holds the lock only from before its first access to
\* the collection until its response is written; so requests may be in
\* progress together, but only one at a time between Lock and Unlock.
C11_LockFromFirstAccess ==
    [][\A r \in Reqs :
        Step(r)
        => /\ pc[r] \in AccessPcs => (lock = r /\ lock' = r)
           /\ pc[r] \in {"post_decode", "put_decode"} => (lock # r /\ lock' = lock)
           /\ (Answers(r) /\ req[r].method = "GET") => lock = r
           /\ (Answers(r) /\ req[r].method \in {"POST", "PUT"})
                => (lock = r <=> pc[r] \in AccessPcs)
           /\ pc[r] \in AccessPcs => \A q \in Reqs \ {r} : pc[q] \notin HoldingPcs
      ]_vars

\* A POST has decoded its body and waits for the lock while a GET, holding
\* the lock, is about to parse its path.
C11_Witness ==
    \E r, q \in Reqs :
        /\ pc[r] = "post_lock" /\ product[r] = Product("x", 5)
        /\ pc[q] = "get_read" /\ lock = q

\* Weather request w takes a step; w writes its response.
WStep(w) == wpc'[w] # wpc[w]

WAnswers(w) == wresp[w] = NoResp /\ wresp'[w] # NoResp

\* C12: a weather request answers 500 with the error text when the upstream
\* call failed in transport or its body did not decode, and 200 with the
\* decoded data otherwise; a step of one request changes nothing of any
\* other request nor of any other state, and the response is a function of
\* the request's own upstream reply.
C12_WeatherStatus ==
    [][\A w \in WReqs :
        /\ WAnswers(w)
           => LET u == upstream[w]
                  d == DecodeWeather(u.body)
              IN  wresp'[w] =
                    IF u.err # "" THEN [code |-> 500, body |-> JText(u.err)]
                    ELSE IF d.err # "" THEN [code |-> 500, body |-> JText(d.err)]
                    ELSE [code |-> 200,
                          body |-> JObj([name |-> JStr(d.data.Name),
                                         main |-> JObj([temp |-> JNum(d.data.Main.TempKelvin)])])]
        /\ WStep(w)
           => /\ \A v \in WReqs \ {w} :
                   /\ wpc'[v] = wpc[v] /\ wpath'[v] = wpath[v] /\ city'[v] = city[v]
                   /\ upstream'[v] = upstream[v] /\ result'[v] = result[v]
                   /\ wresp'[v] = wresp[v]
              /\ UNCHANGED vars
      ]_<<vars, wvars>>

\* One request has answered 500 because the upstream body was not JSON, and
\* another 200 with the zero data because the upstream sent its error object.
C12_Witness ==
    \E w, v \in WReqs :
        /\ wpc[w] = "return" /\ upstream[w] = [err |-> "", body |-> JInvalid]
        /\ wresp[w] = [code |-> 500, body |-> JText(SyntaxErr)]
        /\ wpc[v] = "return" /\ upstream[v].body.t = "object"
        /\ "message" \in DOMAIN upstream[v].body.fields
        /\ wresp[v].code = 200

\* The upstream body is an object with a string "name" and an object "main"
\* with a number "temp".
HasNameAndTemp(b) ==
    /\ b.t = "object"
    /\ "name" \in DOMAIN b.fields /\ b.fields["name"].t = "string"
    /\ "main" \in DOMAIN b.fields /\ b.fields["main"].t = "object"
    /\ "temp" \in DOMAIN b.fields["main"].fields
    /\ b.fields["main"].fields["temp"].t = "number"

\* C13: when the upstream reply carries a name and a main.temp, the response
\* is 200 with exactly {name, main:{temp}} holding those two values.
C13_WeatherShape ==
    [][\A w \in WReqs :
        (WAnswers(w) /\ upstream[w].err = "" /\ HasNameAndTemp(upstream[w].body))
        => LET f == upstream[w].body.fields
           IN  wresp'[w] =
                 [code |-> 200,
                  body |-> [t |-> "object",
                            fields |-> [name |-> [t |-> "string", s |-> f["name"].s],
                                        main |-> [t |-> "object",
                                                  fields |-> [temp |-> [t |-> "number",
                                                       n |-> f["main"].fields["temp"].n]]]]]]
      ]_<<vars, wvars>>

\* The upstream sent London with temp 280 among other members (cod,
\* main.humidity) and the response holds only the name and the temp.
C13_Witness ==
    \E w \in WReqs :
        /\ wpc[w] = "return" /\ city[w] = London
        /\ upstream[w].err = "" /\ upstream[w].body.t = "object"
        /\ "cod" \in DOMAIN upstream[w].body.fields
        /\ "name" \in DOMAIN upstream[w].body.fields
        /\ wresp[w] = [code |-> 200,
                       body |-> JObj([name |-> JStr("London"),
                                      main |-> JObj([temp |-> JNum(280)])])]

\* C14: a request that ends while it holds the lock has released it, in
\* whatever way it returns; the lock is only ever held by a request that is
\* between Lock and Unlock, so whenever requests are in flight one of them
\* can take a step; and under fair scheduling every started request writes a
\* response and a held lock becomes free again.
C14_LockReleased ==
    /\ [][\A r \in Reqs : (lock = r /\ pc'[r] = "idle") => lock' = NoOne]_vars
    /\ [](lock # NoOne => (lock \in Reqs /\ pc[lock] \in HoldingPcs))
    /\ []((\E r \in Reqs : pc[r] # "idle") => \E r \in Reqs : ENABLED (RunStep(r) \/ LockStep(r)))
    /\ \A r \in Reqs : (pc[r] # "idle") ~> (resp[r] # NoResp)
    /\ (lock # NoOne) ~> (lock = NoOne)

\* A PUT has answered 404 for an id out of range and still holds the lock,
\* and a GET is waiting for it.
C14_Witness ==
    \E r, q \in Reqs :
        /\ pc[r] = "put_unlock" /\ resp[r].code = 404 /\ lock = r
        /\ pc[q] = "get_lock"

\* C15: in every step the collection keeps its length or grows by one; it
\* grows exactly in the steps in which a POST answers 201, and the products
\* already there keep their places, the new one being last; the product at
\* an index that exists changes only in a step in which a PUT whose path
\* names that index answers 200. So an index that was valid stays valid.
C15_PositionsAreStable ==
    [][/\ Len(products') \in {Len(products), Len(products) + 1}
       /\ SubSeq(products', 1, Len(products)) # products
            => /\ Len(products') = Len(products)
               /\ \E r \in Reqs :
                     /\ Answers(r) /\ req[r].method = "PUT" /\ resp'[r].code = 200
                     /\ \A i \in 1..Len(products) :
                           products'[i] # products[i] => Names(req[r].url, i - 1)
       /\ Len(products') = Len(products) + 1
            <=> \E r \in Reqs :
                  Answers(r) /\ req[r].method = "POST" /\ resp'[r].code = 201
       /\ \A i \in 1..Len(products) : i \in 1..Len(products')
      ]_vars

\* A POST has appended a fourth product behind the three seeded ones while
\* a PUT to id 0 has changed the first: ids 1 and 2 still denote car and
\* gadgets.
C15_Witness ==
    \E r, q \in Reqs :
        /\ pc[r] = "post_unlock" /\ resp[r].code = 201
        /\ pc[q] = "put_lock" /\ req[q].url = Path(<<"0">>)
        /\ Len(products) = 4 /\ products[4] = Product("x", 5)
        /\ products[1] # SeedProducts[1]
        /\ products[2] = SeedProducts[2] /\ products[3] = SeedProducts[3]

\* C16: the first check that fails decides the status. A PUT answers 404
\* when its path names no id; else, its body being read, 415 when the
\* content type is not application/json; else 400 when the body does not
\* decode; else 404 when the id is out of range; else 200. A POST whose body
\* is read answers 415 when the content type is not application/json; else
\* 400 when the body does not decode; else 201.
C16_CheckOrder ==
    [][\A r \in Reqs :
        (Answers(r) /\ req[r].method \in {"PUT", "POST"})
        => LET q == req[r]
               g == getIdFromRequestPath(q.url)
               json == q.contentType = "application/json"
               decodes == Unmarshal(q.body).err = ""
           IN  /\ (q.method = "PUT" /\ g.err # "") => resp'[r].code = 404
               /\ (q.method = "PUT" /\ g.err = "" /\ ~q.readErr)
                    => resp'[r].code =
                         IF ~json THEN 415
                         ELSE IF ~decodes THEN 400
                         ELSE IF ~(0 <= g.id /\ g.id < Len(products)) THEN 404
                         ELSE 200
               /\ (q.method = "POST" /\ ~q.readErr)
                    => resp'[r].code =
                         IF ~json THEN 415 ELSE IF ~decodes THEN 400 ELSE 201
      ]_vars

\* Two PUTs to id 99 with a body that is not JSON have answered: the one
\* sent as text/plain 415, the one sent as application/json 400; and
\* neither 404.
C16_Witness ==
    \E r, q \in Reqs :
        /\ pc[r] = "return" /\ req[r].method = "PUT" /\ req[r].url = Path(<<"9", "9">>)
        /\ req[r].contentType = "text/plain" /\ req[r].body = JInvalid
        /\ resp[r].code = 415
        /\ pc[q] = "return" /\ req[q].method = "PUT" /\ req[q].url = Path(<<"9", "9">>)
        /\ req[q].contentType = "application/json" /\ req[q].body = JInvalid
        /\ resp[q].code = 400

\* C17: a PUT that answers 200 merges its body into the product that is
\* stored at that moment: the field its body does not carry keeps the
\* stored value, whichever requests wrote it before, and the field it
\* carries is stored; and from its answer until it releases the lock its
\* response is the product stored at its id. So a PUT with only a name and
\* a PUT with only a price to the same id leave both, in either order.
C17_NoLostUpdate ==
    [][\A r \in Reqs :
        /\ (Answers(r) /\ req[r].method = "PUT" /\ resp'[r].code = 200)
           => LET b == Unmarshal(req[r].body).product
                  i == id[r] + 1
              IN  /\ lock = r /\ lock' = r
                  /\ (b.Name = "" /\ b.Price # 0)
                       => products'[i] = [products[i] EXCEPT !.Price = b.Price]
                  /\ (b.Name # "" /\ b.Price = 0)
                       => products'[i] = [products[i] EXCEPT !.Name = b.Name]
                  /\ (b.Name # "" /\ b.Price # 0) => products'[i] = b
                  /\ (b.Name = "" /\ b.Price = 0) => products'[i] = products[i]
        /\ (pc'[r] = "put_unlock" /\ resp'[r].code = 200)
           => resp'[r].body = MarshalProduct(products'[id'[r] + 1])
        /\ (pc[r] = "put_unlock" /\ pc'[r] = "idle" /\ resp[r].code = 200)
           => /\ resp[r].body = MarshalProduct(products[id[r] + 1])
              /\ products' = products
      ]_vars

\* Two PUTs to id 0 are in flight, one with only a name and one with only
\* a price: the first has stored the name and answered with it, and still
\* holds the lock; the second waits for the lock.
C17_Witness ==
    \E r, q \in Reqs :
        /\ pc[r] = "put_unlock" /\ lock = r
        /\ req[r].url = Path(<<"0">>) /\ req[r].body = BodyNameOnly
        /\ resp[r] = [code |-> 200, body |-> JObj([name |-> JStr("x"), price |-> JNum(10)])]
        /\ products[1] = Product("x", 10)
        /\ pc[q] = "put_lock"
        /\ req[q].url = Path(<<"0">>) /\ req[q].body = BodyPriceOnly

====
